---- MODULE Spec2Model ----
(***************************************************************************)
(* kubernetes_labels: a Terraform resource that manages the labels of an   *)
(* already existing Kubernetes object.  Two versions of the resource are   *)
(* modelled side by side:                                                  *)
(*   variant "A"  server-side apply patch, Read filtered by managedFields  *)
(*   variant "B"  JSON patch computed from old/new state, Read unfiltered  *)
(* The state is the remote object (labels and managedFields), the          *)
(* Terraform state of the resource, and the outcome of the last operation. *)
(***************************************************************************)
EXTENDS Integers, Sequences, FiniteSets, TLC

VARIABLES
    variant,       \* "A" or "B": which version of the resource runs
    scope,         \* mapping.Scope.Name() of the target kind
    cfgNamespace,  \* metadata.namespace of the configuration ("" when omitted)
    remote,        \* the target object: [labels, managedFields]
    tfstate,       \* the stored resource state: [id, labels]
    appliedKeys,   \* history: label keys a successful patch of this resource wrote
    drift,         \* history: the last external label change no get has seen yet
    result         \* outcome of the last operation (its diagnostics and requests)

vars == <<variant, scope, cfgNamespace, remote, tfstate, appliedKeys, drift, result>>

----------------------------------------------------------------------------
(* Bounds of the model *)

\* label values are the strings "1" .. "MaxVal", written as numbers
MaxVal == 2

Keys == {"a", "b", "c"}
Vals == 1..MaxVal
Namespaces == {"", "prod"}
Scopes == {"namespace", "root"}

----------------------------------------------------------------------------
(* Label maps: map[string]string, a function from a set of keys to values *)

EmptyMap == [k \in {} |-> 0]
MapsOver(KS) == UNION {[S -> Vals] : S \in SUBSET KS}
Restrict(m, S) == [k \in S \cap DOMAIN m |-> m[k]]

----------------------------------------------------------------------------
(* The API server: field ownership (metadata.managedFields) and patches *)

defaultFieldManagerName == "Terraform"
OtherManager == "kubectl"

\* the name of a label's field in a FieldsV1 document
FieldName(k) == "f:" \o k

\* A managedFields entry.  hasMetadata: FieldsV1 has "f:metadata";
\* hasLabels: it has "f:metadata"."f:labels"; labels: the field names below it.
Entry(mgr, op, ks) ==
    [manager |-> mgr, operation |-> op, hasMetadata |-> TRUE,
     hasLabels |-> TRUE, labels |-> {FieldName(k) : k \in ks}]

\* an entry of a manager that applied no label at all: only annotations
\* (hasMetadata) or only data fields
EntryWithoutLabels(mgr, op, meta) ==
    [manager |-> mgr, operation |-> op, hasMetadata |-> meta,
     hasLabels |-> FALSE, labels |-> {}]

Identity(e) == <<e.manager, e.operation>>
Owns(e, k) == e.hasLabels /\ FieldName(k) \in e.labels
OwnedBy(mf, id) ==
    {k \in Keys : \E i \in 1..Len(mf) : Identity(mf[i]) = id /\ Owns(mf[i], k)}
OwnedByOther(mf, id, k) ==
    \E i \in 1..Len(mf) : Identity(mf[i]) # id /\ Owns(mf[i], k)

Strip(e, ks) == [e EXCEPT !.labels = @ \ {FieldName(k) : k \in ks}]
\* an entry that owned labels only and lost them all is dropped by the server
Emptied(e, ks) == e.hasLabels /\ e.labels # {} /\ Strip(e, ks).labels = {}
OthersAfter(mf, id, ks) ==
    SelectSeq([i \in 1..Len(mf) |-> IF Emptied(mf[i], ks)
                                      THEN [mf[i] EXCEPT !.manager = ""]
                                      ELSE Strip(mf[i], ks)],
              LAMBDA e : e.manager # "" /\ Identity(e) # id)

\* A write with operation Update by manager mgr that leaves the labels at
\* newLabels: removed fields leave every entry, changed fields move to mgr.
\* The entry written last is the last of the list.
ServerUpdate(obj, newLabels, mgr) ==
    LET mf      == obj.managedFields
        id      == <<mgr, "Update">>
        removed == DOMAIN obj.labels \ DOMAIN newLabels
        changed == {k \in DOMAIN newLabels :
                       k \notin DOMAIN obj.labels \/ obj.labels[k] # newLabels[k]}
        owned   == (OwnedBy(mf, id) \ removed) \cup changed
    IN  IF removed \cup changed = {} THEN obj
        ELSE [labels |-> newLabels,
              managedFields |->
                 OthersAfter(mf, id, removed \cup changed)
                 \o (IF owned = {} THEN <<>> ELSE <<Entry(mgr, "Update", owned)>>)]

\* PATCH with types.ApplyPatchType by (Terraform, Apply) with the label map D.
\* A label of D that another entry owns with another value is a conflict:
\* refused without force, taken over with it.  A label this manager applied
\* before and leaves out now is removed unless another entry owns it too.
ServerApply(obj, D, force) ==
    LET mf        == obj.managedFields
        id        == <<defaultFieldManagerName, "Apply">>
        conflicts == {k \in DOMAIN D \cap DOMAIN obj.labels :
                         obj.labels[k] # D[k] /\ OwnedByOther(mf, id, k)}
        orphaned  == {k \in OwnedBy(mf, id) \ DOMAIN D : ~OwnedByOther(mf, id, k)}
        kept      == DOMAIN obj.labels \ orphaned
        labels    == [k \in kept \cup DOMAIN D |->
                         IF k \in DOMAIN D THEN D[k] ELSE obj.labels[k]]
    IN  IF conflicts # {} /\ ~force
        THEN [err |-> "ErrConflict", obj |-> obj]
        ELSE [err |-> "none",
              obj |-> [labels |-> labels,
                       managedFields |->
                          <<Entry(defaultFieldManagerName, "Apply", DOMAIN D)>>
                          \o OthersAfter(mf, id, conflicts)]]

\* JSON patch operations on the label map
LabelsPath == "/metadata/labels/"
NoValue == 0
Op(op, k, v) == [op |-> op, path |-> LabelsPath \o k, value |-> v]
PathKey(p) == CHOOSE k \in Keys : LabelsPath \o k = p
OpKeys(ops, kinds) == {PathKey(o.path) : o \in {p \in ops : p.op \in kinds}}

\* PATCH with types.JSONPatchType by (Terraform, Update): remove and replace
\* need the member to exist, add sets it; the patch applies whole or not at all.
ServerJSONPatch(obj, ops) ==
    LET written == {o \in ops : o.op \in {"add", "replace"}}
        dom     == (DOMAIN obj.labels \ OpKeys(ops, {"remove"}))
                   \cup OpKeys(ops, {"add", "replace"})
        labels  == [k \in dom |->
                      IF k \in OpKeys(ops, {"add", "replace"})
                      THEN (CHOOSE o \in written : PathKey(o.path) = k).value
                      ELSE obj.labels[k]]
    IN  IF OpKeys(ops, {"remove", "replace"}) \subseteq DOMAIN obj.labels
        THEN [err |-> "none",
              obj |-> ServerUpdate(obj, labels, defaultFieldManagerName)]
        ELSE [err |-> "ErrPatchPath", obj |-> obj]

----------------------------------------------------------------------------
(* Helpers of the resource *)

\* diffStringMap(pathPrefix, oldV, newV): the patch from the old to the new map
diffStringMap(old, new) ==
    {Op("remove", k, NoValue) : k \in DOMAIN old \ DOMAIN new}
    \cup {Op("replace", k, new[k]) :
             k \in {j \in DOMAIN new \cap DOMAIN old : old[j] # new[j]}}
    \cup {Op("add", k, new[k]) : k \in DOMAIN new \ DOMAIN old}

\* buildIdWithVersionKind: the identifier Create gives the resource
buildIdWithVersionKind(namespace) ==
    "apiVersion=v1,kind=ConfigMap,name=target"
    \o (IF namespace = "" THEN "" ELSE ",namespace=" \o namespace)

\* getManagedLabels(managedFields, manager): the loop over the entries.  The
\* labels of the last entry of the manager that has "f:labels" are returned;
\* the unchecked type assertion on mm["f:metadata"] panics when an entry of
\* the manager has no "f:metadata".  (FieldsV1.Raw comes from the API server
\* and is valid JSON, so json.Unmarshal returns no error.)
RECURSIVE managedLabelsFrom(_, _, _, _)
managedLabelsFrom(managedFields, manager, i, labels) ==
    IF i > Len(managedFields) THEN [status |-> "ok", labels |-> labels]
    ELSE LET m == managedFields[i]
         IN  IF m.manager # manager
             THEN managedLabelsFrom(managedFields, manager, i + 1, labels)
             ELSE IF ~m.hasMetadata
             THEN [status |-> "panic", labels |-> {}]
             ELSE IF m.hasLabels
             THEN managedLabelsFrom(managedFields, manager, i + 1, m.labels)
             ELSE managedLabelsFrom(managedFields, manager, i + 1, labels)

getManagedLabels(managedFields, manager) ==
    managedLabelsFrom(managedFields, manager, 1, {})

----------------------------------------------------------------------------
(* Resolving the resource client, common to Read and Update *)

ResolveFaults == {"dynamicClient", "discoveryClient", "discovery", "parse", "mapping"}
ReadFaults == {"none", "get"} \cup ResolveFaults
UpdateFaults == {"none", "patch"} \cup ResolveFaults

TargetKind == "ConfigMap"

\* restmapper.GetAPIGroupResources(dc): the kinds discovery lists, nil and an
\* error when the query fails
GetAPIGroupResources(fault) ==
    IF fault = "discovery" THEN [agr |-> {}, err |-> "ErrDiscovery"]
    ELSE IF fault = "mapping" THEN [agr |-> {"Secret"}, err |-> "none"]
    ELSE [agr |-> {TargetKind, "Secret"}, err |-> "none"]

\* restMapper.RESTMapping(groupKind, version) over the discovered kinds
RESTMapping(agr, kind) == IF kind \in agr THEN "none" ELSE "ErrNoKindMatch"

\* ResourceClient without the default: an empty namespace stays empty
ResourceClientAsConfigured(sc, namespace) ==
    IF sc = "namespace"
    THEN [namespaced |-> TRUE, namespace |-> namespace]
    ELSE [namespaced |-> FALSE, namespace |-> ""]

\* the ResourceInterface r: namespaced (with "default" for an empty namespace)
\* or cluster-wide
ResourceClient(sc, namespace) ==
    IF sc = "namespace"
    THEN [namespaced |-> TRUE,
          namespace |-> IF namespace = "" THEN "default" ELSE namespace]
    ELSE [namespaced |-> FALSE, namespace |-> ""]

\* The common prologue.  The error of GetAPIGroupResources is overwritten by
\* the next assignment to err and is never looked at.
Resolve(fault, sc, namespace) ==
    LET found == GetAPIGroupResources(fault)
        r     == ResourceClient(sc, namespace)
    IN  IF fault = "dynamicClient" THEN [err |-> "ErrDynamicClient", r |-> r]
        ELSE IF fault = "discoveryClient" THEN [err |-> "ErrDiscoveryClient", r |-> r]
        ELSE IF fault = "parse" THEN [err |-> "ErrParseGroupVersion", r |-> r]
        ELSE [err |-> RESTMapping(found.agr, TargetKind), r |-> r]

Request(verb, r) ==
    [verb |-> verb, namespaced |-> r.namespaced, namespace |-> r.namespace]

----------------------------------------------------------------------------
(* Read.  The result: the diagnostics, the requests issued, whether and    *)
(* what d.Set("labels", ...) recorded, and the object after the requests.  *)

ReadOutcome(diag, reqs, set, labels, obj) ==
    [diag |-> diag, reqs |-> reqs, set |-> set, labels |-> labels, obj |-> obj]

\* the loop of variant A's Read: a label that is neither managed nor
\* configured is deleted from the map that is recorded
StripUnmanaged(labels, managedLabels, configuredLabels) ==
    Restrict(labels, {k \in Keys : \/ FieldName(k) \in managedLabels
                                   \/ k \in DOMAIN configuredLabels})

\* variant A
resourceKubernetesLabelsReadA(configuredLabels, obj, fault, sc, namespace) ==
    LET c       == Resolve(fault, sc, namespace)
        get     == <<Request("get", c.r)>>
        managed == getManagedLabels(obj.managedFields, defaultFieldManagerName)
    IN  IF c.err # "none" THEN ReadOutcome(c.err, <<>>, FALSE, EmptyMap, obj)
        ELSE IF fault = "get" THEN ReadOutcome("ErrGet", get, FALSE, EmptyMap, obj)
        ELSE IF managed.status = "panic"
        THEN ReadOutcome("panic", get, FALSE, EmptyMap, obj)
        ELSE ReadOutcome("none", get, TRUE,
                         StripUnmanaged(obj.labels, managed.labels, configuredLabels),
                         obj)

\* a Read of variant B that writes the configured labels back to the object
resourceKubernetesLabelsReadBWriting(configuredLabels, obj, fault, sc, namespace) ==
    LET c   == Resolve(fault, sc, namespace)
        get == <<Request("get", c.r)>>
        own == Restrict(obj.labels, DOMAIN configuredLabels)
    IN  IF c.err # "none" THEN ReadOutcome(c.err, <<>>, FALSE, EmptyMap, obj)
        ELSE IF fault = "get" THEN ReadOutcome("ErrGet", get, FALSE, EmptyMap, obj)
        ELSE ReadOutcome("none", get \o <<Request("patch", c.r)>>, TRUE, own,
                         ServerUpdate(obj, own, defaultFieldManagerName))

\* variant B: the labels of the object as they are
resourceKubernetesLabelsReadB(configuredLabels, obj, fault, sc, namespace) ==
    LET c   == Resolve(fault, sc, namespace)
        get == <<Request("get", c.r)>>
    IN  IF c.err # "none" THEN ReadOutcome(c.err, <<>>, FALSE, EmptyMap, obj)
        ELSE IF fault = "get" THEN ReadOutcome("ErrGet", get, FALSE, EmptyMap, obj)
        ELSE ReadOutcome("none", get, TRUE, obj.labels, obj)

----------------------------------------------------------------------------
(* Update.  d is the ResourceData: id (d.Id()), labels (d.Get("labels")),   *)
(* old (the old value of d.GetChange("labels")), force (d.Get("force")).    *)
(* The result adds the patch sent and whether the server accepted it.       *)

UpdateOutcome(read, patch, patched) ==
    [diag |-> read.diag, reqs |-> read.reqs, set |-> read.set,
     labels |-> read.labels, obj |-> read.obj, patch |-> patch, patched |-> patched]

\* PatchLabels without the test of the id
PatchLabelsAlways(d) == d.labels

\* the labels to patch in: none when the id is empty, which means delete
PatchLabels(d) == IF d.id = "" THEN EmptyMap ELSE d.labels

\* ReturnAfterPatch without the test of the error the server returned
ReturnAfterPatchUnchecked(fault, req, applied, read, obj) ==
    IF fault = "patch" THEN ReadOutcome("ErrPatch", req, FALSE, EmptyMap, obj)
    ELSE [read EXCEPT !.reqs = req \o @]

\* the end of Update: the error of the patch request is returned, else Read
\* runs and its result is returned
ReturnAfterPatch(fault, req, applied, read, obj) ==
    IF fault = "patch" THEN ReadOutcome("ErrPatch", req, FALSE, EmptyMap, obj)
    ELSE IF applied.err # "none"
    THEN ReadOutcome(applied.err, req, FALSE, EmptyMap, obj)
    ELSE [read EXCEPT !.reqs = req \o @]

\* variant A: the desired map as a server-side apply patch
resourceKubernetesLabelsUpdateA(d, obj, fault, readFault, sc, namespace) ==
    LET c       == Resolve(fault, sc, namespace)
        labels  == PatchLabels(d)
        applied == ServerApply(obj, labels, d.force)
        read    == resourceKubernetesLabelsReadA(d.labels, applied.obj,
                                                 readFault, sc, namespace)
    IN  IF c.err # "none"
        THEN UpdateOutcome(ReadOutcome(c.err, <<>>, FALSE, EmptyMap, obj), labels, FALSE)
        ELSE UpdateOutcome(ReturnAfterPatch(fault, <<Request("patch", c.r)>>,
                                            applied, read, obj),
                           labels, fault # "patch" /\ applied.err = "none")

\* variant B: the difference between the old and the new map as a JSON patch
resourceKubernetesLabelsUpdateB(d, obj, fault, readFault, sc, namespace) ==
    LET c       == Resolve(fault, sc, namespace)
        patch   == diffStringMap(d.old, PatchLabels(d))
        applied == ServerJSONPatch(obj, patch)
        read    == resourceKubernetesLabelsReadB(d.labels, applied.obj,
                                                 readFault, sc, namespace)
    IN  IF c.err # "none"
        THEN UpdateOutcome(ReadOutcome(c.err, <<>>, FALSE, EmptyMap, obj), patch, FALSE)
        ELSE UpdateOutcome(ReturnAfterPatch(fault, <<Request("patch", c.r)>>,
                                            applied, read, obj),
                           patch, fault # "patch" /\ applied.err = "none")

resourceKubernetesLabelsRead(v, configuredLabels, obj, fault, sc, namespace) ==
    IF v = "A"
    THEN resourceKubernetesLabelsReadA(configuredLabels, obj, fault, sc, namespace)
    ELSE resourceKubernetesLabelsReadB(configuredLabels, obj, fault, sc, namespace)

resourceKubernetesLabelsUpdate(v, d, obj, fault, readFault, sc, namespace) ==
    IF v = "A"
    THEN resourceKubernetesLabelsUpdateA(d, obj, fault, readFault, sc, namespace)
    ELSE resourceKubernetesLabelsUpdateB(d, obj, fault, readFault, sc, namespace)

----------------------------------------------------------------------------
(* The state machine: the framework calls the four handlers, other clients *)
(* of the API server change the object in between.                         *)

Variants == {"A", "B"}
NoDrift == ""
NoPatch(v) == IF v = "A" THEN EmptyMap ELSE {}
ResourceData(id, labels, old, force) ==
    [id |-> id, labels |-> labels, old |-> old, force |-> force]

\* the label keys a patch writes
WrittenKeys(v, patch) ==
    IF v = "A" THEN DOMAIN patch ELSE OpKeys(patch, {"add", "replace"})

\* The record of an operation: its name, the faults injected into Update's
\* and Read's calls, the diagnostics returned, the requests issued, the
\* labels d.Get("labels") gave, the patch built, and whether the patch undid
\* an external change that no request of the resource had met.
Outcome(op, fault, readFault, diag, reqs, desired, patch, lost) ==
    [op |-> op, fault |-> fault, readFault |-> readFault, diag |-> diag,
     reqs |-> reqs, desired |-> desired, patch |-> patch, lost |-> lost]

NoOutcome(op, v) ==
    Outcome(op, "none", "none", "none", <<>>, EmptyMap, NoPatch(v), FALSE)

InitOver(variants, scopes, namespaces, maps) ==
    /\ variant \in variants
    /\ scope \in scopes
    /\ cfgNamespace \in namespaces
    /\ \E L \in maps :
          remote = [labels |-> L,
                    managedFields |->
                       IF L = EmptyMap THEN <<>>
                       ELSE <<Entry(OtherManager, "Update", DOMAIN L)>>]
    /\ tfstate = [id |-> "", labels |-> EmptyMap]
    /\ appliedKeys = {}
    /\ drift = NoDrift
    /\ result = NoOutcome("None", variant)

\* The state the framework stores after Create, Update or Delete: nothing of
\* a crashed call; no resource once the id is empty; else the labels Read
\* set, or the planned ones when the handler failed before setting any.
StateAfter(d, out) ==
    IF out.diag = "panic" THEN tfstate
    ELSE IF d.id = ""
    THEN (IF out.diag = "none" THEN [id |-> "", labels |-> EmptyMap] ELSE tfstate)
    ELSE [id |-> d.id, labels |-> IF out.set THEN out.labels ELSE d.labels]

\* what the handlers of Create, Update and Delete share: run Update on d and
\* keep its effects
RunUpdate(op, d, fault, readFault) ==
    \E out \in {resourceKubernetesLabelsUpdate(variant, d, remote, fault, readFault,
                                               scope, cfgNamespace)} :
        /\ fault # "none" => readFault = "none"
        /\ remote' = out.obj
        /\ appliedKeys' = IF out.patched
                          THEN appliedKeys \cup WrittenKeys(variant, out.patch)
                          ELSE appliedKeys
        /\ drift' = IF out.set \/ out.patched THEN NoDrift ELSE drift
        /\ result' = Outcome(op, fault, readFault, out.diag, out.reqs, d.labels,
                             out.patch,
                             /\ out.patched
                             /\ drift # NoDrift
                             /\ Restrict(out.obj.labels, {drift})
                                   # Restrict(remote.labels, {drift}))
        /\ tfstate' = StateAfter(d, out)
        /\ UNCHANGED <<variant, scope, cfgNamespace>>

Create(D, force, fault, readFault) ==
    /\ tfstate.id = ""
    /\ RunUpdate("Create",
                 ResourceData(buildIdWithVersionKind(cfgNamespace), D, EmptyMap, force),
                 fault, readFault)

\* The framework calls Update when an argument that is not ForceNew differs
\* from the state: labels, or force, which only variant A has.
Update(D, force, fault, readFault) ==
    /\ tfstate.id # ""
    /\ variant = "B" => D # tfstate.labels
    /\ RunUpdate("Update", ResourceData(tfstate.id, D, tfstate.labels, force),
                 fault, readFault)

Delete(force, fault, readFault) ==
    /\ tfstate.id # ""
    /\ RunUpdate("Delete", ResourceData("", tfstate.labels, tfstate.labels, force),
                 fault, readFault)

Read(fault) ==
    \E out \in {resourceKubernetesLabelsRead(variant, tfstate.labels, remote, fault,
                                             scope, cfgNamespace)} :
        /\ tfstate.id # ""
        /\ remote' = out.obj
        /\ tfstate' = IF out.set THEN [tfstate EXCEPT !.labels = out.labels]
                      ELSE tfstate
        /\ drift' = IF out.set THEN NoDrift ELSE drift
        /\ result' = Outcome("Read", "none", fault, out.diag, out.reqs,
                             tfstate.labels, NoPatch(variant), FALSE)
        /\ UNCHANGED <<variant, scope, cfgNamespace, appliedKeys>>

External(obj, k) ==
    /\ remote' = obj
    /\ drift' = k
    /\ result' = NoOutcome("External", variant)
    /\ UNCHANGED <<variant, scope, cfgNamespace, tfstate, appliedKeys>>

\* another client sets a label
ExternalSet(mgr, k, v) ==
    /\ (IF k \in DOMAIN remote.labels THEN remote.labels[k] # v ELSE TRUE)
    /\ External(ServerUpdate(remote,
                             [j \in DOMAIN remote.labels \cup {k} |->
                                 IF j = k THEN v ELSE remote.labels[j]],
                             mgr),
                k)

\* another client removes a label
ExternalRemove(k) ==
    /\ k \in DOMAIN remote.labels
    /\ External(ServerUpdate(remote, Restrict(remote.labels, DOMAIN remote.labels \ {k}),
                             OtherManager),
                k)

\* another resource of the provider applies, under the same field manager, a
\* configuration without labels: annotations (inMetadata) or data fields
ExternalApply(inMetadata) ==
    LET id       == <<defaultFieldManagerName, "Apply">>
        mf       == remote.managedFields
        orphaned == {k \in OwnedBy(mf, id) : ~OwnedByOther(mf, id, k)}
    IN  External([labels |-> Restrict(remote.labels, DOMAIN remote.labels \ orphaned),
                  managedFields |->
                     <<EntryWithoutLabels(defaultFieldManagerName, "Apply", inMetadata)>>
                     \o OthersAfter(mf, id, {})],
                 drift)

----------------------------------------------------------------------------
(* Spec: the labels of one namespaced target over two keys, the handlers   *)
(* interleaved with the other clients; every request reaches the server.   *)

LabelKeys == {"a", "b"}
LabelMaps == MapsOver(LabelKeys)

Init == InitOver(Variants, {"namespace"}, {""}, LabelMaps)

Next ==
    \/ \E D \in LabelMaps, force \in BOOLEAN : Create(D, force, "none", "none")
    \/ \E D \in LabelMaps, force \in BOOLEAN : Update(D, force, "none", "none")
    \/ \E force \in BOOLEAN : Delete(force, "none", "none")
    \/ Read("none")
    \/ \E mgr \in {OtherManager, defaultFieldManagerName}, k \in LabelKeys, v \in Vals :
          ExternalSet(mgr, k, v)
    \/ \E k \in LabelKeys : ExternalRemove(k)
    \/ \E inMetadata \in BOOLEAN : ExternalApply(inMetadata)

Spec == Init /\ [][Next]_vars

----------------------------------------------------------------------------
(* SpecDiff: variant B alone over three keys, without other clients: the   *)
(* patches Update builds.                                                  *)

InitDiff == InitOver({"B"}, {"namespace"}, {""}, MapsOver(Keys))

NextDiff ==
    \/ \E D \in MapsOver(Keys) : Create(D, FALSE, "none", "none")
    \/ \E D \in MapsOver(Keys) : Update(D, FALSE, "none", "none")
    \/ Delete(FALSE, "none", "none")
    \/ Read("none")

SpecDiff == InitDiff /\ [][NextDiff]_vars

----------------------------------------------------------------------------
(* SpecResolve: every scope and namespace, every fault of the prologue and *)
(* of the requests, labels over one key, without other clients.            *)

ResolveMaps == MapsOver({"a"})

InitResolve == InitOver(Variants, Scopes, Namespaces, ResolveMaps)

NextResolve ==
    \/ \E D \in ResolveMaps, f \in UpdateFaults, rf \in ReadFaults :
          Create(D, TRUE, f, rf)
    \/ \E D \in ResolveMaps, f \in UpdateFaults, rf \in ReadFaults :
          Update(D, TRUE, f, rf)
    \/ \E f \in UpdateFaults, rf \in ReadFaults : Delete(TRUE, f, rf)
    \/ \E f \in ReadFaults : Read(f)

SpecResolve == InitResolve /\ [][NextResolve]_vars

----------------------------------------------------------------------------
(* Properties *)

Handlers == {"Create", "Update", "Delete", "Read"}
Patching == {"Create", "Update", "Delete"}

\* the desired label set of an operation: none for Delete
Desired(r) == IF r.op \in {"Create", "Update"} THEN r.desired ELSE EmptyMap

\* the label keys that some entry of the tool's field manager owns
AttributedKeys(mf) ==
    {k \in Keys : \E i \in 1..Len(mf) :
                     mf[i].manager = defaultFieldManagerName /\ Owns(mf[i], k)}

Verbs(reqs) == [i \in DOMAIN reqs |-> reqs[i].verb]

\* C1: no operation of the resource, in either variant, removes from the
\* object a label key that the resource never applied and that is not in the
\* desired label set of the operation.
C1_OnlyOwnLabelsRemoved ==
    [][result'.op \in Handlers
          => (DOMAIN remote.labels \ DOMAIN remote'.labels)
                \subseteq (appliedKeys \cup DOMAIN Desired(result'))]_vars

\* the keys the resource owns: it applied them, its field manager still holds
\* them and no other manager does
OwnedKeys ==
    {k \in appliedKeys \cap AttributedKeys(remote.managedFields) :
        \A i \in 1..Len(remote.managedFields) :
           Owns(remote.managedFields[i], k)
              => remote.managedFields[i].manager = defaultFieldManagerName}

\* C2: after the resource applied labels, a successful Delete removes from the
\* object exactly the keys the resource owns and leaves every other label as
\* it was.
C2_DeleteRemovesOwnedOnly ==
    [][(result'.op = "Delete" /\ result'.diag = "none" /\ appliedKeys # {})
          => remote'.labels
                = Restrict(remote.labels, DOMAIN remote.labels \ OwnedKeys)]_vars

\* C3: when a Create or Update with the desired set D has succeeded (its
\* patch and its closing Read) and the object has no label key outside D, the
\* labels recorded in the state are exactly D.
C3_RoundTrip ==
    [][(/\ result'.op \in {"Create", "Update"}
        /\ result'.diag = "none"
        /\ DOMAIN remote.labels \subseteq DOMAIN result'.desired
        /\ DOMAIN remote'.labels \subseteq DOMAIN result'.desired)
          => tfstate'.labels = result'.desired]_vars

\* the operations of a patch on the key k
OpsAt(ops, k) == {[op |-> o.op, value |-> o.value] : o \in {p \in ops : p.path = LabelsPath \o k}}

\* the operations the diff of old and new has on the key k
DiffAt(old, new, k) ==
    IF k \in DOMAIN old /\ k \notin DOMAIN new
    THEN {[op |-> "remove", value |-> NoValue]}
    ELSE IF k \in DOMAIN old /\ k \in DOMAIN new
    THEN (IF old[k] # new[k] THEN {[op |-> "replace", value |-> new[k]]} ELSE {})
    ELSE IF k \in DOMAIN new THEN {[op |-> "add", value |-> new[k]]}
    ELSE {}

C5_Namespace ==
    \A i \in DOMAIN result.reqs :
       /\ result.reqs[i].namespaced = (scope = "namespace")
       /\ result.reqs[i].namespace
             = (IF scope # "namespace" THEN ""
                ELSE IF cfgNamespace = "" THEN "default" ELSE cfgNamespace)

C5_Witness ==
    /\ scope = "namespace"
    /\ cfgNamespace = ""
    /\ result.op = "Update"
    /\ Len(result.reqs) = 2
    /\ \A i \in DOMAIN result.reqs : result.reqs[i].namespace = "default"

\* C6: Read issues get requests only and leaves the object as it is.
C6_ReadOnly ==
    [][result'.op = "Read"
          => /\ remote' = remote
             /\ \A i \in DOMAIN result'.reqs : result'.reqs[i].verb = "get"]_vars

C6_Witness ==
    /\ variant = "A"
    /\ result.op = "Read"
    /\ result.diag = "none"
    /\ result.reqs # <<>>
    /\ ~(DOMAIN remote.labels \subseteq DOMAIN tfstate.labels)

\* C7: a Read that succeeds, alone or at the end of Create or Update, records
\* in variant A the labels of the object restricted to the configured keys and
\* the keys attributed to the tool's field manager, in variant B all labels of
\* the object.
C7_ReadRecords ==
    (result.op \in {"Read", "Create", "Update"} /\ result.diag = "none")
       => tfstate.labels
             = (IF variant = "A"
                THEN Restrict(remote.labels,
                              AttributedKeys(remote.managedFields)
                                 \cup DOMAIN result.desired)
                ELSE remote.labels)

\* C8: when the discovery query, the parse of the API version or the mapping
\* of the kind fails, in Update or in Read, the operation returns that very
\* error and issues no request of its own.
FaultError(f) ==
    IF f = "discovery" THEN "ErrDiscovery"
    ELSE IF f = "parse" THEN "ErrParseGroupVersion"
    ELSE "ErrNoKindMatch"

C8_ResolveErrorReturned ==
    /\ result.fault \in {"discovery", "parse", "mapping"}
          => result.diag = FaultError(result.fault) /\ result.reqs = <<>>
    /\ result.readFault \in {"discovery", "parse", "mapping"}
          => /\ result.diag = FaultError(result.readFault)
             /\ "get" \notin {result.reqs[i].verb : i \in DOMAIN result.reqs}

\* C9: a Create or Update that succeeds has sent its patch first and read
\* afterwards, with no request before the patch and none repeated, and every
\* key it wrote has the desired value on the object, whatever another client
\* did to it since the last Read.
C9_PatchWithoutCheck ==
    (result.op \in {"Create", "Update"} /\ result.diag = "none")
       => /\ Verbs(result.reqs) = <<"patch", "get">>
          /\ \A k \in WrittenKeys(variant, result.patch) :
                /\ k \in DOMAIN remote.labels
                /\ remote.labels[k] = result.desired[k]

C9_ExternalChangeLost ==
    /\ result.op = "Update"
    /\ result.diag = "none"
    /\ result.lost

\* C10: getManagedLabels never aborts, and it returns every label key that
\* some entry of the tool's field manager owns.
C10_ManagedLabelsTotal ==
    /\ result.diag # "panic"
    /\ \E m \in {getManagedLabels(remote.managedFields, defaultFieldManagerName)} :
          /\ m.status = "ok"
          /\ \A k \in AttributedKeys(remote.managedFields) : FieldName(k) \in m.labels

====
